---- MODULE Spec2Model ----
(***************************************************************************)
(* The funding ledger of the crowdfund application (src/app.py): the       *)
(* projects and contributions tables, the per-project comment blob, and    *)
(* the request handlers that write and read them (contribute, add_comment, *)
(* create_project, project_detail, my_projects), run as concurrent         *)
(* requests against one MySQL database.                                    *)
(*                                                                         *)
(* Money is counted in cents (DECIMAL(10,2) columns).  A Python float is   *)
(* the pair [c, d]: the decimal value c cents plus a deviation of d units  *)
(* of 2^-52/100, so that binary64 rounding is computed exactly.            *)
(* A percentage is carried in hundredths of a percent.                     *)
(***************************************************************************)
EXTENDS Integers, Sequences, FiniteSets, Bags, TLC

VARIABLES
    projects,       \* the projects table: projects[id] is the row of project id
    contributions,  \* the contributions table, in insertion (id) order
    req,            \* the requests in flight, a bag: each with its handler, position and locals
    last,           \* the response most recently sent: its status and flashed message
    okContrib,      \* history: the contribute requests that reported success
    okComments,     \* history: per project, the add_comment requests that reported success
    seen            \* history, kept when seen.on: per project, what the latest read reported

vars == <<projects, contributions, req, last, okContrib, okComments, seen>>

----------------------------------------------------------------------------
(* Bounds of the model *)

MaxReq == 2          \* requests in flight together
MaxProjects == 2     \* projects created
MaxContribs == 3     \* contribute requests that reach the insert
MaxComments == 2     \* add_comment requests that reach the commit

(* Program constants, money in cents *)

AmountMin == 100
AmountMax == 1000000
GoalMin == 100
GoalMax == 100000000
CommentMin == 5
CommentMax == 500
TitleMin == 5
TitleMax == 200
DescriptionMin == 20
RecentLimit == 10
NumCategories == 6

\* flask-login's current_user: create_default_data leaves one account, the
\* admin, and every request comes from a session logged in as that account
current_user == "admin"

\* the category ids create_default_data leaves in the categories table
Categories == 1..NumCategories

----------------------------------------------------------------------------
(* Inputs the requests are drawn from *)

\* the amounts posted to contribute, in whole cents: the FloatField parses
\* them to floats and the DECIMAL(10,2) column stores them to the cent again
AmountInputs == {-110, 0, 99, 100, 110, 1000001}

\* a comment text: its length and whether it is whitespace only
Text(n, ws) == [len |-> n, ws |-> ws]
TextInputs ==
    {Text(0, TRUE), Text(4, FALSE), Text(5, FALSE), Text(5, TRUE),
     Text(500, FALSE), Text(501, FALSE)}

\* a project form: title length, description length, funding goal, category
Form(title, description, funding_goal, category) ==
    [title |-> title, description |-> description,
     funding_goal |-> funding_goal, category |-> category]
ProjectInputs ==
    {Form(5, 20, 200, 1), Form(4, 20, 200, 1), Form(5, 19, 200, 1),
     Form(5, 20, 0, 1), Form(5, 20, -200, 1), Form(5, 20, 99, 1),
     Form(5, 20, 100000001, 1),
     Form(5, 20, 200, NumCategories + 1)}

----------------------------------------------------------------------------
(* Arithmetic *)

Min(a, b) == IF a <= b THEN a ELSE b

RECURSIVE Pow2(_)
Pow2(n) == IF n = 0 THEN 1 ELSE 2 * Pow2(n - 1)

RECURSIVE Pow2Mod(_, _)
Pow2Mod(n, m) == IF n = 0 THEN 1 % m ELSE (2 * Pow2Mod(n - 1, m)) % m

\* the binary exponent e of c cents: 2^e <= c/100 < 2^(e+1), for c >= 100
RECURSIVE Exponent(_, _)
Exponent(c, e) == IF 100 * Pow2(e + 1) > c THEN e ELSE Exponent(c, e + 1)

\* The binary64 nearest to c/100 + d0 * 2^-52/100 (round to nearest, ties to
\* even), as the deviation from c/100.  The doubles of exponent e are the
\* multiples of M = 100 * 2^e units.
RoundToDouble(c, d0) ==
    IF c = 0 THEN [c |-> 0, d |-> 0] ELSE
    LET e0 == Exponent(c, 0)
        e == IF c = 100 * Pow2(e0) /\ d0 < 0 THEN e0 - 1 ELSE e0
        M == 100 * Pow2(e)
        A200 == ((c % 200) * Pow2Mod(52 - e, 200)) % 200
        low == (A200 % 100) * Pow2(e) + d0
        R == low % M
        odd == ((A200 \div 100) + (low \div M)) % 2 = 1
        up == IF 2 * R > M THEN TRUE ELSE IF 2 * R < M THEN FALSE ELSE odd
    IN  [c |-> c, d |-> IF up THEN d0 - R + M ELSE d0 - R]

\* float(Decimal): the double nearest to a two-decimal amount
float(c) == RoundToDouble(c, 0)

\* x + y on doubles
FloatAdd(x, y) == RoundToDouble(x.c + y.c, x.d + y.d)

\* sum([...]) on a list of doubles: left to right from the int 0
RECURSIVE FloatSum(_)
FloatSum(s) ==
    IF s = <<>> THEN [c |-> 0, d |-> 0]
    ELSE FloatAdd(FloatSum(SubSeq(s, 1, Len(s) - 1)), s[Len(s)])

\* SUM() over DECIMAL(10,2): exact
RECURSIVE DecimalSum(_)
DecimalSum(s) == IF s = <<>> THEN 0 ELSE s[1] + DecimalSum(Tail(s))

\* (total / goal) * 100 in hundredths of a percent; goal = 0 raises
Progress(total, goal) ==
    IF goal = 0 THEN [raised |-> TRUE, divided |-> TRUE, value |-> 0]
    ELSE IF goal > 0
         THEN [raised |-> FALSE, divided |-> TRUE,
               value |-> (total \div goal) * 10000 + ((total % goal) * 10000) \div goal]
         ELSE [raised |-> FALSE, divided |-> TRUE,
               value |-> 0 - ((total \div (0 - goal)) * 10000
                              + ((total % (0 - goal)) * 10000) \div (0 - goal))]

\* the percentage handed on as computed, without the cap
CapMissing(progress) == progress

\* min(progress, 100)
Cap(progress) ==
    IF progress.raised THEN progress
    ELSE [progress EXCEPT !.value = Min(progress.value, 10000)]

\* the literal 0 returned without dividing
Zero == [raised |-> FALSE, divided |-> FALSE, value |-> 0]

----------------------------------------------------------------------------
(* The comment blob: Project.comments is a Text column holding JSON.  The   *)
(* blob is the sequence of its JSON tokens; a comment object is one token.  *)

Comment(username, text) == [username |-> username, comment |-> text]

\* a token that is no object: a bracket, a comma, null, or text that is no JSON
Tok(s) == [t |-> s]

IsObject(tok) == tok \notin {Tok("["), Tok("]"), Tok(","), Tok("null"), Tok("garbage")}

\* a token that is a JSON value by itself: an object or null
IsValue(tok) == IsObject(tok) \/ tok = Tok("null")

\* json.dumps of a list of comment objects
RECURSIVE JsonDumps(_)
JsonDumps(items) ==
    IF items = <<>> THEN <<Tok("["), Tok("]")>>
    ELSE IF Len(items) = 1 THEN <<Tok("["), items[1], Tok("]")>>
    ELSE LET front == JsonDumps(SubSeq(items, 1, Len(items) - 1))
         IN  SubSeq(front, 1, Len(front) - 1) \o <<Tok(","), items[Len(items)], Tok("]")>>

\* the elements of a comma-separated token sequence; ok = FALSE when malformed
RECURSIVE ParseElements(_, _)
ParseElements(toks, acc) ==
    IF toks = <<>> THEN [ok |-> FALSE, items |-> <<>>]
    ELSE IF ~IsValue(toks[1]) THEN [ok |-> FALSE, items |-> <<>>]
    ELSE IF Len(toks) = 1 THEN [ok |-> TRUE, items |-> Append(acc, toks[1])]
    ELSE IF toks[2] # Tok(",") THEN [ok |-> FALSE, items |-> <<>>]
    ELSE ParseElements(SubSeq(toks, 3, Len(toks)), Append(acc, toks[1]))

\* json.loads: the value parsed, or ok = FALSE when it raises
JsonLoads(blob) ==
    IF blob = <<>> THEN [ok |-> FALSE, kind |-> "none", items |-> <<>>]
    ELSE IF Len(blob) = 1
         THEN IF IsObject(blob[1]) THEN [ok |-> TRUE, kind |-> "dict", items |-> <<>>]
              ELSE IF blob[1] = Tok("null") THEN [ok |-> TRUE, kind |-> "none", items |-> <<>>]
              ELSE [ok |-> FALSE, kind |-> "none", items |-> <<>>]
    ELSE IF blob[1] # Tok("[") \/ blob[Len(blob)] # Tok("]")
         THEN [ok |-> FALSE, kind |-> "none", items |-> <<>>]
    ELSE IF Len(blob) = 2 THEN [ok |-> TRUE, kind |-> "list", items |-> <<>>]
    ELSE LET p == ParseElements(SubSeq(blob, 2, Len(blob) - 1), <<>>)
         IN  [ok |-> p.ok, kind |-> IF p.ok THEN "list" ELSE "none", items |-> p.items]

\* a Python value: a list with its items, or something that is no list
PyList(items) == [kind |-> "list", items |-> items]

\* Project.get_comments_list on a stored blob
get_comments_list(blob) ==
    IF blob = <<>> THEN PyList(<<>>)
    ELSE LET v == JsonLoads(blob)
         IN  IF v.ok THEN [kind |-> v.kind, items |-> v.items] ELSE PyList(<<>>)

\* an add_comment that puts the new comment first
add_comment_first(blob, username, comment_text) ==
    LET comments_list == get_comments_list(blob)
    IN  IF comments_list.kind # "list" THEN [raised |-> TRUE, blob |-> blob]
        ELSE [raised |-> FALSE,
              blob |-> JsonDumps(<<Comment(username, comment_text)>> \o comments_list.items)]

\* Project.add_comment on a loaded blob: the new blob, or raised when
\* comments_list.append fails because the parsed value is no list
add_comment_blob(blob, username, comment_text) ==
    LET comments_list == get_comments_list(blob)
    IN  IF comments_list.kind # "list" THEN [raised |-> TRUE, blob |-> blob]
        ELSE [raised |-> FALSE,
              blob |-> JsonDumps(Append(comments_list.items, Comment(username, comment_text)))]

----------------------------------------------------------------------------
(* Forms *)

\* wtforms DataRequired on a number: the value is truthy
DataRequiredNumber(x) == x # 0

\* wtforms DataRequired on a string: not empty after strip()
DataRequiredText(t) == t.len > 0 /\ ~t.ws

\* a range check without its upper end
NumberRangeNoMax(x, lo, hi) == lo <= x

\* wtforms NumberRange(min, max): both ends included
NumberRange(x, lo, hi) == lo <= x /\ x <= hi

\* wtforms Length(min, max): both ends included
Length(n, lo, hi) == lo <= n /\ n <= hi

\* ContributionForm.validate_on_submit
ContributionFormValid(amount) ==
    DataRequiredNumber(amount) /\ NumberRange(amount, AmountMin, AmountMax)

\* a comment form whose length check leaves out both ends
CommentFormExclusive(text) ==
    DataRequiredText(text) /\ CommentMin < text.len /\ text.len < CommentMax

\* CommentForm.validate_on_submit
CommentFormValid(text) ==
    DataRequiredText(text) /\ Length(text.len, CommentMin, CommentMax)

\* a project form that checks neither the funding goal nor the category
ProjectFormTextOnly(title, description, goal, category) ==
    /\ Length(title, TitleMin, TitleMax)
    /\ description >= DescriptionMin

\* ProjectForm.validate_on_submit
ProjectFormValid(title, description, goal, category) ==
    /\ Length(title, TitleMin, TitleMax)
    /\ description >= DescriptionMin
    /\ DataRequiredNumber(goal) /\ NumberRange(goal, GoalMin, GoalMax)
    /\ category \in Categories

----------------------------------------------------------------------------
(* Queries *)

ProjectIds == 1..Len(projects)

\* Project.query.get_or_404 finds the row
Exists(pid) == pid \in ProjectIds

RECURSIVE SelectSeq2(_, _)
SelectSeq2(s, pid) ==
    IF s = <<>> THEN <<>>
    ELSE IF s[1].project_id = pid THEN <<s[1]>> \o SelectSeq2(Tail(s), pid)
    ELSE SelectSeq2(Tail(s), pid)

\* the contribution rows of a project among `rows`, in id order
RowsOf(rows, pid) == SelectSeq2(rows, pid)

RECURSIVE Amounts(_)
Amounts(rows) == IF rows = <<>> THEN <<>> ELSE <<rows[1].amount>> \o Amounts(Tail(rows))

RECURSIVE FloatAmounts(_)
FloatAmounts(rows) ==
    IF rows = <<>> THEN <<>> ELSE <<float(rows[1].amount)>> \o FloatAmounts(Tail(rows))

RECURSIVE Reverse(_)
Reverse(s) == IF s = <<>> THEN <<>> ELSE Append(Reverse(Tail(s)), s[1])

\* db.session.query(db.func.sum(Contribution.amount)).filter_by(project_id=id).scalar() or 0
SumQuery(rows, pid) == DecimalSum(Amounts(RowsOf(rows, pid)))

\* Contribution.query.filter_by(project_id=id).count()
CountQuery(rows, pid) == Len(RowsOf(rows, pid))

\* Contribution.query.filter_by(project_id=id).order_by(created_at.desc()).limit(10).all()
RecentQuery(rows, pid) ==
    LET r == Reverse(RowsOf(rows, pid)) IN SubSeq(r, 1, Min(Len(r), RecentLimit))

\* Project.get_total_raised: sum of float(amount) over the project's contributions
get_total_raised(rows, pid) == FloatSum(FloatAmounts(RowsOf(rows, pid)))

\* Project.get_contribution_count
get_contribution_count(rows, pid) == Len(RowsOf(rows, pid))

\* Project.get_progress_percentage, to the hundredth of a percent below: the
\* rounding error of the float total is far smaller than that
get_progress_percentage(rows, pid, funding_goal) ==
    IF funding_goal <= 0 THEN Zero
    ELSE Cap(Progress(get_total_raised(rows, pid).c, funding_goal))

\* progress_percentage of project_detail
detail_progress_percentage(total_raised, funding_goal) ==
    IF funding_goal > 0 THEN Cap(Progress(total_raised, funding_goal)) ELSE Zero

----------------------------------------------------------------------------
(* Requests.  The requests in flight are interchangeable, so they are kept  *)
(* as a bag rather than in numbered slots.                                  *)

NotFound == [status |-> 404, flash |-> ""]
ServerError == [status |-> 500, flash |-> ""]
Redirect(flash) == [status |-> 302, flash |-> flash]
Page == [status |-> 200, flash |-> ""]
NoResponse == [status |-> 0, flash |-> ""]

InFlightRequests == BagToSet(req)

\* the number of requests of handler op in flight
InFlight(op) ==
    LET S == {q \in InFlightRequests : q.op = op}
    IN  IF S = {} THEN 0 ELSE BagCardinality([q \in S |-> req[q]])

CanStart == BagCardinality(req) < MaxReq

\* The read requests (project_detail, my_projects) write nothing, so two of
\* them in flight cannot affect each other or any writer: the model runs one
\* read at a time, next to any number of writers.
NoReader == \A q \in InFlightRequests : q.op \notin {"project_detail", "my_projects"}

RECURSIVE TotalLen(_)
TotalLen(ss) == IF ss = <<>> THEN 0 ELSE Len(ss[1]) + TotalLen(Tail(ss))

\* queries that see whatever is committed at the moment they run
VisibleNow(q) == contributions

\* The rows the queries of request q see.  The session of a request runs one
\* transaction, and MySQL/InnoDB's default isolation (REPEATABLE READ) serves
\* every read of it from the snapshot its first read took.
Visible(q) == SubSeq(contributions, 1, q.snap)

\* Contribution(amount=..., user_id=..., project_id=...)
Contribution(amount, user_id, project_id) ==
    [amount |-> amount, user_id |-> user_id, project_id |-> project_id]

\* Project(...): comments takes the column default ''
Project(funding_goal, category_id, user_id) ==
    [funding_goal |-> funding_goal, comments |-> <<>>,
     user_id |-> user_id, category_id |-> category_id]

\* a commit that writes the new row over the latest stored one
CommitOverwrites(rows, row) ==
    IF rows = <<>> THEN <<row>> ELSE [rows EXCEPT ![Len(rows)] = row]

\* db.session.add(row); db.session.commit()
Commit(rows, row) == Append(rows, row)

\* a rollback that leaves the pending row in the table
RollbackKeepsRow(rows, row) == Append(rows, row)

\* db.session.rollback(): the pending row is discarded
Rollback(rows, row) == rows

\* a request is answered at once
Respond(resp) == req' = req /\ last' = resp /\ seen' = seen

\* a request goes in flight
Begin(q) == req' = req (+) SetToBag({q}) /\ last' = last /\ seen' = seen

\* read request q has computed figures of project p: the history notes them
SeenTotal(p, total_raised) ==
    IF seen.on THEN [seen EXCEPT !.at[p].total_raised = total_raised] ELSE seen

SeenPage(p, total_raised, progress_percentage) ==
    IF seen.on
    THEN [seen EXCEPT !.at[p] = [total_raised |-> total_raised,
                                 progress_percentage |-> progress_percentage]]
    ELSE seen

\* request q moves on
StepSeen(q, q2, seen2) ==
    req' = (req (-) SetToBag({q})) (+) SetToBag({q2}) /\ last' = last /\ seen' = seen2

Step(q, q2) == StepSeen(q, q2, seen)

\* request q is answered
EndSeen(q, resp, seen2) == req' = req (-) SetToBag({q}) /\ last' = resp /\ seen' = seen2

End(q, resp) == EndSeen(q, resp, seen)

----------------------------------------------------------------------------
(* contribute: get_or_404 and the form, then the insert and its commit *)

\* a contribute that turns contributions away once the goal is met
StartContributeClosed(project_id, amount) ==
    /\ CanStart
    /\ IF ~Exists(project_id)
       THEN Respond(NotFound)
       ELSE IF ~ContributionFormValid(amount)
               \/ SumQuery(contributions, project_id) >= projects[project_id].funding_goal
       THEN Respond(Redirect("Invalid contribution amount."))
       ELSE /\ Len(contributions) + InFlight("contribute") < MaxContribs
            /\ Begin([op |-> "contribute",
                      contribution |-> Contribution(amount, current_user, project_id)])
    /\ UNCHANGED <<projects, contributions, okContrib, okComments>>

\* a contribute that does not look the project up
StartContributeUnchecked(project_id, amount) ==
    /\ CanStart
    /\ IF ~ContributionFormValid(amount)
       THEN Respond(Redirect("Invalid contribution amount."))
       ELSE /\ Len(contributions) + InFlight("contribute") < MaxContribs
            /\ Begin([op |-> "contribute",
                      contribution |-> Contribution(amount, current_user, project_id)])
    /\ UNCHANGED <<projects, contributions, okContrib, okComments>>

StartContribute(project_id, amount) ==
    /\ CanStart
    /\ IF ~Exists(project_id)
       THEN Respond(NotFound)
       ELSE IF ~ContributionFormValid(amount)
       THEN Respond(Redirect("Invalid contribution amount."))
       ELSE /\ Len(contributions) + InFlight("contribute") < MaxContribs
            /\ Begin([op |-> "contribute",
                      contribution |-> Contribution(amount, current_user, project_id)])
    /\ UNCHANGED <<projects, contributions, okContrib, okComments>>

ContributeCommit(q) ==
    /\ q.op = "contribute"
    /\ contributions' = Commit(contributions, q.contribution)
    /\ okContrib' = Append(okContrib, q.contribution)
    /\ End(q, Redirect("Thank you for your contribution"))
    /\ UNCHANGED <<projects, okComments>>

\* the commit raises
ContributeRollback(q) ==
    /\ q.op = "contribute"
    /\ contributions' = Rollback(contributions, q.contribution)
    /\ End(q, Redirect("Contribution failed. Please try again."))
    /\ UNCHANGED <<projects, okContrib, okComments>>

----------------------------------------------------------------------------
(* add_comment: get_or_404 loads the row, the form, Project.add_comment in  *)
(* memory, then the commit writes the whole blob back                       *)

StartAddComment(project_id, text) ==
    /\ CanStart
    /\ IF ~Exists(project_id)
       THEN Respond(NotFound)
       ELSE IF ~CommentFormValid(text)
       THEN Respond(Redirect("Invalid comment. Please check your input."))
       ELSE LET new == add_comment_blob(projects[project_id].comments, current_user, text)
            IN  IF new.raised
                THEN Respond(ServerError)
                ELSE /\ TotalLen(okComments) + InFlight("add_comment") < MaxComments
                     /\ Begin([op |-> "add_comment", project_id |-> project_id,
                               comment |-> Comment(current_user, text),
                               comments |-> new.blob])
    /\ UNCHANGED <<projects, contributions, okContrib, okComments>>

\* a commit that writes the blob to the row of every project
AddCommentCommitAll(q) ==
    /\ q.op = "add_comment"
    /\ projects' = [p \in DOMAIN projects |-> [projects[p] EXCEPT !.comments = q.comments]]
    /\ okComments' = [okComments EXCEPT ![q.project_id] = Append(@, q.comment)]
    /\ End(q, Redirect("Comment added successfully!"))
    /\ UNCHANGED <<contributions, okContrib>>

AddCommentCommit(q) ==
    /\ q.op = "add_comment"
    /\ projects' = [projects EXCEPT ![q.project_id].comments = q.comments]
    /\ okComments' = [okComments EXCEPT ![q.project_id] = Append(@, q.comment)]
    /\ End(q, Redirect("Comment added successfully!"))
    /\ UNCHANGED <<contributions, okContrib>>

\* the commit raises: nothing catches it, the session is discarded
AddCommentFail(q) ==
    /\ q.op = "add_comment"
    /\ End(q, ServerError)
    /\ UNCHANGED <<projects, contributions, okContrib, okComments>>

----------------------------------------------------------------------------
(* create_project *)

CreateProject(form) ==
    /\ CanStart
    /\ IF ~ProjectFormValid(form.title, form.description, form.funding_goal, form.category)
       THEN /\ Respond(Page)
            /\ UNCHANGED <<projects, okComments>>
       ELSE /\ Len(projects) < MaxProjects
            /\ projects' = Append(projects,
                                  Project(form.funding_goal, form.category, current_user))
            /\ okComments' = Append(okComments, <<>>)
            /\ Respond(Redirect("Project created successfully!"))
    /\ UNCHANGED <<contributions, okContrib>>

----------------------------------------------------------------------------
(* project_detail: get_or_404, the recent contributions, the SUM, the comments *)

StartProjectDetail(id) ==
    /\ CanStart
    /\ IF ~Exists(id)
       THEN Respond(NotFound)
       ELSE /\ NoReader
            /\ Begin([op |-> "project_detail", pc |-> "recent", id |-> id,
                      project |-> projects[id], snap |-> Len(contributions),
                      acked |-> okComments[id], contributions |-> <<>>])
    /\ UNCHANGED <<projects, contributions, okContrib, okComments>>

DetailRecent(q) ==
    /\ q.op = "project_detail" /\ q.pc = "recent"
    /\ Step(q, [q EXCEPT !.pc = "sum",
                         !.contributions = RecentQuery(Visible(q), q.id)])
    /\ UNCHANGED <<projects, contributions, okContrib, okComments>>

\* what project_detail hands to render_template
DetailResponse(q) ==
    LET total_raised == SumQuery(Visible(q), q.id)
        progress_percentage ==
            detail_progress_percentage(total_raised, q.project.funding_goal)
    IN  [raised |-> progress_percentage.raised, divided |-> progress_percentage.divided,
         id |-> q.id, contributions |-> q.contributions,
         total_raised |-> total_raised,
         progress_percentage |-> progress_percentage.value,
         comments |-> get_comments_list(q.project.comments)]

DetailSum(q) ==
    /\ q.op = "project_detail" /\ q.pc = "sum"
    /\ IF DetailResponse(q).raised
       THEN End(q, ServerError)
       ELSE EndSeen(q, Page, SeenPage(q.id, DetailResponse(q).total_raised,
                                      DetailResponse(q).progress_percentage))
    /\ UNCHANGED <<projects, contributions, okContrib, okComments>>

----------------------------------------------------------------------------
(* my_projects: the user's projects, then a SUM and a COUNT for each *)

\* Project.query.filter_by(user_id=...).order_by(created_at.desc()): ids, newest first
RECURSIVE OwnedBy(_, _)
OwnedBy(n, user) ==
    IF n = 0 THEN <<>>
    ELSE IF projects[n].user_id = user THEN <<n>> \o OwnedBy(n - 1, user)
    ELSE OwnedBy(n - 1, user)

StartMyProjects ==
    /\ CanStart
    /\ LET ids == OwnedBy(Len(projects), current_user)
       IN  IF ids = <<>>
           THEN Respond(Page)
           ELSE /\ NoReader
                /\ Begin([op |-> "my_projects", pc |-> "sum", todo |-> ids,
                          snap |-> Len(contributions), total_raised |-> 0,
                          project_data |-> <<>>])
    /\ UNCHANGED <<projects, contributions, okContrib, okComments>>

MySum(q) ==
    /\ q.op = "my_projects" /\ q.pc = "sum"
    /\ Step(q, [q EXCEPT !.pc = "count",
                         !.total_raised = SumQuery(Visible(q), Head(q.todo))])
    /\ UNCHANGED <<projects, contributions, okContrib, okComments>>

\* the entry my_projects appends to project_data for the project at hand
MyProjectData(q) ==
    [project |-> Head(q.todo),
     total_raised |-> q.total_raised,
     contribution_count |-> CountQuery(Visible(q), Head(q.todo))]

MyCount(q) ==
    /\ q.op = "my_projects" /\ q.pc = "count"
    /\ IF Tail(q.todo) = <<>>
       THEN EndSeen(q, Page, SeenTotal(Head(q.todo), q.total_raised))
       ELSE StepSeen(q, [q EXCEPT !.pc = "sum", !.todo = Tail(q.todo),
                                  !.total_raised = 0,
                                  !.project_data = Append(@, MyProjectData(q))],
                     SeenTotal(Head(q.todo), q.total_raised))
    /\ UNCHANGED <<projects, contributions, okContrib, okComments>>

----------------------------------------------------------------------------
(* Specifications *)

\* no read has reported anything yet; on: whether the history is kept
NothingSeen(on) ==
    [on |-> on,
     at |-> [p \in 1..MaxProjects |-> [total_raised |-> 0, progress_percentage |-> 0]]]

Init ==
    /\ projects = <<>>
    /\ contributions = <<>>
    /\ req = EmptyBag
    /\ last = NoResponse
    /\ okContrib = <<>>
    /\ okComments = <<>>
    /\ seen = NothingSeen(FALSE)

CreateStep == \E form \in ProjectInputs : CreateProject(form)

ContributeStep ==
    \/ \E p \in 1..MaxProjects, a \in AmountInputs : StartContribute(p, a)
    \/ \E q \in InFlightRequests : ContributeCommit(q)
    \/ \E q \in InFlightRequests : ContributeRollback(q)

CommentStep ==
    \/ \E p \in 1..MaxProjects, t \in TextInputs : StartAddComment(p, t)
    \/ \E q \in InFlightRequests : AddCommentCommit(q)
    \/ \E q \in InFlightRequests : AddCommentFail(q)

DetailStep ==
    \/ \E p \in 1..MaxProjects : StartProjectDetail(p)
    \/ \E q \in InFlightRequests : DetailRecent(q)
    \/ \E q \in InFlightRequests : DetailSum(q)

MyProjectsStep ==
    \/ StartMyProjects
    \/ \E q \in InFlightRequests : MySum(q)
    \/ \E q \in InFlightRequests : MyCount(q)

Next == CreateStep \/ ContributeStep \/ CommentStep \/ DetailStep \/ MyProjectsStep

Spec == Init /\ [][Next]_vars

\* the ledger alone: projects, contributions and the reads of them
LedgerNext == CreateStep \/ ContributeStep \/ DetailStep \/ MyProjectsStep

SpecLedger == Init /\ [][LedgerNext]_vars

\* the ledger of two projects, of goals 1.00 and 2.00, with the history of
\* what its reads reported
InitObserved ==
    /\ projects = <<Project(GoalMin, 1, current_user), Project(2 * GoalMin, 1, current_user)>>
    /\ contributions = <<>>
    /\ req = EmptyBag
    /\ last = NoResponse
    /\ okContrib = <<>>
    /\ okComments = <<<<>>, <<>>>>
    /\ seen = NothingSeen(TRUE)

ObservedNext == ContributeStep \/ DetailStep \/ MyProjectsStep

SpecObserved == InitObserved /\ [][ObservedNext]_vars

\* one project of goal 100.00 receiving contributions of 30.00, 40.00 and
\* 50.00, in any order and number, and project_detail reading it
ScenarioGoal == 100 * 100     \* 100.00, in cents
ScenarioAmounts == {3000, 4000, 5000}

InitScenario ==
    /\ projects = <<Project(ScenarioGoal, 1, current_user)>>
    /\ contributions = <<>>
    /\ req = EmptyBag
    /\ last = NoResponse
    /\ okContrib = <<>>
    /\ okComments = <<<<>>>>
    /\ seen = NothingSeen(FALSE)

ScenarioNext ==
    \/ \E a \in ScenarioAmounts : StartContribute(1, a)
    \/ \E q \in InFlightRequests : ContributeCommit(q)
    \/ \E q \in InFlightRequests : ContributeRollback(q)
    \/ DetailStep

SpecScenario == InitScenario /\ [][ScenarioNext]_vars

\* the writes alone: projects, contributions and comments
WritesNext == CreateStep \/ ContributeStep \/ CommentStep

SpecWrites == Init /\ [][WritesNext]_vars

\* the writes of the ledger alone: projects and contributions
ContributeNext == CreateStep \/ ContributeStep

SpecContribute == Init /\ [][ContributeNext]_vars

\* the comment log alone: projects, comments and the reads of them
CommentsNext == CreateStep \/ CommentStep \/ DetailStep

SpecComments == Init /\ [][CommentsNext]_vars

\* projects, both kinds of write, and project_detail reading them
DetailNext == CreateStep \/ ContributeStep \/ CommentStep \/ DetailStep

SpecDetail == Init /\ [][DetailNext]_vars

\* the comment log with its add_comment requests executed one after another
SeqCommentsNext ==
    \/ CreateStep
    \/ CommentStep /\ (InFlight("add_comment") <= 1)'
    \/ DetailStep

SpecSeqComments == Init /\ [][SeqCommentsNext]_vars

\* one project whose stored comments field holds any text: empty, the dump of
\* a comment list, text that is no JSON (garbage, a list cut short), and JSON
\* that is no list of comments (null, a single object, a list holding null)
StoredBlobs ==
    LET c == Comment(current_user, Text(CommentMin, FALSE))
    IN  {<<>>, JsonDumps(<<c>>), <<Tok("garbage")>>, <<Tok("["), c>>,
         <<Tok("null")>>, <<c>>, <<Tok("["), Tok("null"), Tok("]")>>}

InitAnyBlob ==
    /\ \E blob \in StoredBlobs :
           projects = <<[Project(GoalMin, 1, current_user) EXCEPT !.comments = blob]>>
    /\ contributions = <<>>
    /\ req = EmptyBag
    /\ last = NoResponse
    /\ okContrib = <<>>
    /\ okComments = <<<<>>>>
    /\ seen = NothingSeen(FALSE)

\* add_comment requests one after another, contributions and project_detail
AnyBlobNext ==
    \/ CommentStep /\ (InFlight("add_comment") <= 1)'
    \/ ContributeStep
    \/ DetailStep

SpecAnyBlob == InitAnyBlob /\ [][AnyBlobNext]_vars

\* the ledger of two projects whose stored funding goals are any DECIMAL(10,2)
\* values, the misconfigured ones (<= 0) included
StoredGoals == {-200, 0, 100, 200}

InitAnyGoal ==
    /\ \E g1 \in StoredGoals, g2 \in StoredGoals :
           /\ g1 <= g2     \* the two rows are interchangeable
           /\ projects = <<Project(g1, 1, current_user), Project(g2, 1, current_user)>>
    /\ contributions = <<>>
    /\ req = EmptyBag
    /\ last = NoResponse
    /\ okContrib = <<>>
    /\ okComments = <<<<>>, <<>>>>
    /\ seen = NothingSeen(FALSE)

AnyGoalNext == ContributeStep \/ DetailStep

SpecAnyGoal == InitAnyGoal /\ [][AnyGoalNext]_vars

----------------------------------------------------------------------------
(* Properties *)

\* the exact decimal sum of the contributions that were recorded with success
\* against project p
ExactTotal(p) == DecimalSum(Amounts(RowsOf(okContrib, p)))

\* C1: for every project, the total raised is the exact sum of the amounts of
\* exactly the contributions recorded against it: the SUM query of the read
\* handlers returns that sum, and Project.get_total_raised returns the float
\* of that sum.
C1_TotalIsExactSum ==
    \A p \in ProjectIds :
        /\ SumQuery(contributions, p) = ExactTotal(p)
        /\ get_total_raised(contributions, p) = float(ExactTotal(p))

\* what C2 asks of one computed percentage for a stored funding goal
InRange(funding_goal, progress) ==
    /\ ~progress.raised
    /\ 0 <= progress.value /\ progress.value <= 10000
    /\ funding_goal <= 0 => progress.value = 0 /\ ~progress.divided

\* C2: in every reachable state, for every stored funding goal (those <= 0
\* included) and every total raised (those above the goal included), the
\* progress percentage of Project.get_progress_percentage and the one
\* project_detail is about to render lie in [0, 100]; for a goal <= 0 it is
\* exactly 0 and nothing was divided.
C2_ProgressInRange ==
    /\ \A p \in ProjectIds :
           InRange(projects[p].funding_goal,
                   get_progress_percentage(contributions, p, projects[p].funding_goal))
    /\ \A q \in InFlightRequests :
           q.op = "project_detail" /\ q.pc = "sum" =>
               InRange(q.project.funding_goal,
                       detail_progress_percentage(SumQuery(Visible(q), q.id),
                                                  q.project.funding_goal))

\* C2 witness: project_detail is about to render a funded project whose goal
\* is <= 0, while another project is funded beyond its positive goal
C2_Witness ==
    /\ \E q \in InFlightRequests :
           /\ q.op = "project_detail" /\ q.pc = "sum"
           /\ q.project.funding_goal <= 0
           /\ SumQuery(Visible(q), q.id) > 0
    /\ \E p \in ProjectIds :
           /\ projects[p].funding_goal > 0
           /\ SumQuery(contributions, p) > projects[p].funding_goal

\* this step is a contribute request against project p reporting success
ContributeSucceeded(p) ==
    \E q \in InFlightRequests :
        /\ q.op = "contribute" /\ q.contribution.project_id = p
        /\ req' = req (-) SetToBag({q})
        /\ last' = Redirect("Thank you for your contribution")

\* C3: the contribution count of a project is the number of contribute
\* requests against it that reported success, and every step other than such
\* a success (a rejected amount, a missing project, a commit that raised and
\* was rolled back, any other request) leaves the count, the total raised
\* and the very rows of the project, which get_total_raised sums, as they were.
C3_CountTracksSuccess ==
    /\ [](\A p \in ProjectIds :
              get_contribution_count(contributions, p) = Len(RowsOf(okContrib, p)))
    /\ [][\A p \in ProjectIds :
              IF ContributeSucceeded(p)
              THEN get_contribution_count(contributions', p)
                       = get_contribution_count(contributions, p) + 1
              ELSE /\ get_contribution_count(contributions', p)
                          = get_contribution_count(contributions, p)
                   /\ SumQuery(contributions', p) = SumQuery(contributions, p)
                   /\ RowsOf(contributions', p) = RowsOf(contributions, p)]_vars

\* C3 witness: a commit has just raised and been rolled back on a project
\* that two successful requests had contributed to
C3_Witness ==
    /\ last = Redirect("Contribution failed. Please try again.")
    /\ \E p \in ProjectIds :
           /\ Len(RowsOf(okContrib, p)) = 2
           /\ get_contribution_count(contributions, p) = 2

\* this step is add_comment request q on project p reporting success
CommentSucceeded(q, p) ==
    /\ q.op = "add_comment" /\ q.project_id = p
    /\ req' = req (-) SetToBag({q})
    /\ last' = Redirect("Comment added successfully!")

\* C4: with the add_comment requests executed one after another,
\* get_comments_list of a project returns exactly the comments of the requests
\* that reported success, in the order they were appended, each with the
\* username and text supplied; a successful request appends its comment to
\* the list, and every other step (a request failing validation among them)
\* leaves the stored blob as it was.
C4_CommentsInAppendOrder ==
    /\ [](\A p \in ProjectIds :
              get_comments_list(projects[p].comments) = PyList(okComments[p]))
    /\ [][\A p \in ProjectIds :
              \/ \E q \in InFlightRequests :
                     /\ CommentSucceeded(q, p)
                     /\ get_comments_list(projects'[p].comments)
                            = PyList(Append(get_comments_list(projects[p].comments).items,
                                            q.comment))
              \/ /\ ~\E q \in InFlightRequests : CommentSucceeded(q, p)
                 /\ projects'[p].comments = projects[p].comments]_vars

\* C4 witness: a request has just failed validation on a log that holds the
\* two different comments of two successful requests, in their order
C4_Witness ==
    /\ last = Redirect("Invalid comment. Please check your input.")
    /\ \E p \in ProjectIds :
           /\ Len(okComments[p]) = 2
           /\ okComments[p][1] # okComments[p][2]
           /\ get_comments_list(projects[p].comments).items = okComments[p]

\* every contribution recorded with success against project p is of amount A
AllOfAmount(p, A) ==
    \A i \in 1..Len(okContrib) : okContrib[i].project_id = p => okContrib[i].amount = A

\* C5: once the contribute requests, of one amount A each, that ran
\* concurrently against a project have all committed, and N of them reported
\* success, the contribution count is N, the SUM query returns N*A and
\* Project.get_total_raised returns the float of N*A.
C5_ConcurrentContributions ==
    \A p \in ProjectIds : \A A \in AmountInputs :
        InFlight("contribute") = 0 /\ AllOfAmount(p, A) =>
            LET N == Len(RowsOf(okContrib, p))
            IN  /\ get_contribution_count(contributions, p) = N
                /\ SumQuery(contributions, p) = N * A
                /\ get_total_raised(contributions, p) = float(N * A)

\* the part of C5 that is about lost or doubled contributions
C5_NoneLostOrDoubled ==
    \A p \in ProjectIds : \A A \in AmountInputs :
        InFlight("contribute") = 0 /\ AllOfAmount(p, A) =>
            LET N == Len(RowsOf(okContrib, p))
            IN  /\ get_contribution_count(contributions, p) = N
                /\ SumQuery(contributions, p) = N * A

\* the number of times comment c occurs in the sequence s
RECURSIVE Occurrences(_, _)
Occurrences(c, s) ==
    IF s = <<>> THEN 0
    ELSE (IF s[1] = c THEN 1 ELSE 0) + Occurrences(c, Tail(s))

\* the list `items` holds every comment of the sequence `wanted`, each as
\* many times as it was written
HoldsEach(items, wanted) ==
    \A i \in 1..Len(wanted) : Occurrences(wanted[i], items) = Occurrences(wanted[i], wanted)

\* C6: once the concurrent add_comment requests on a project have all
\* reported success, the stored log of the project contains every one of
\* their comments.
C6_NoLostComment ==
    \A p \in ProjectIds :
        InFlight("add_comment") = 0 =>
            HoldsEach(get_comments_list(projects[p].comments).items, okComments[p])

\* the contributions recorded with success against project p when read
\* request q started
ContribAtStart(q, p) == RowsOf(SubSeq(okContrib, 1, q.snap), p)

\* C7: the page project_detail is about to render reflects every write that
\* had committed when the request started exactly once: each contribution
\* once in the total raised and once in the rows listed, each comment once in
\* the comment list.
C7_ReadReflectsWrites ==
    \A q \in InFlightRequests :
        q.op = "project_detail" /\ q.pc = "sum" =>
            LET d == DetailResponse(q)
            IN  /\ d.total_raised = DecimalSum(Amounts(ContribAtStart(q, q.id)))
                /\ Len(d.contributions) = Min(Len(ContribAtStart(q, q.id)), RecentLimit)
                /\ HoldsEach(d.comments.items, q.acked)

\* the part of C7 about contributions
C7_ReadReflectsContributions ==
    \A q \in InFlightRequests :
        q.op = "project_detail" /\ q.pc = "sum" =>
            LET d == DetailResponse(q)
            IN  /\ d.total_raised = DecimalSum(Amounts(ContribAtStart(q, q.id)))
                /\ Len(d.contributions) = Min(Len(ContribAtStart(q, q.id)), RecentLimit)

\* the contributions committed when the table held its first n rows
CommittedAt(n) == SubSeq(contributions, 1, n)

C9_AmountsWithinBounds ==
    /\ \A i \in 1..Len(contributions) :
           /\ contributions[i].amount > 0
           /\ 100 <= contributions[i].amount /\ contributions[i].amount <= 1000000
    /\ \A q \in InFlightRequests :
           q.op = "contribute" =>
               100 <= q.contribution.amount /\ q.contribution.amount <= 1000000

\* C9 witness: an amount has just been rejected while the table holds a
\* contribution of exactly the floor amount
C9_Witness ==
    /\ last = Redirect("Invalid contribution amount.")
    /\ \E i \in 1..Len(contributions) : contributions[i].amount = 100

\* this step puts an add_comment request for text t on project p in flight:
\* the form accepted the text
CommentAccepted(p, t) ==
    \E q \in BagToSet(req') :
        /\ q.op = "add_comment" /\ q.project_id = p /\ q.comment.comment = t
        /\ req' = req (+) SetToBag({q})

\* this step answers an add_comment request as invalid and modifies no log
CommentRejected ==
    /\ req' = req
    /\ last' = Redirect("Invalid comment. Please check your input.")
    /\ projects' = projects

\* the texts of the comments stored for project p
StoredTexts(p) ==
    LET items == get_comments_list(projects[p].comments).items
    IN  {items[i].comment : i \in 1..Len(items)}

\* C10 as stated: add_comment accepts a text exactly when its length is
\* between 5 and 500 characters inclusive, and rejects it without modifying
\* the log otherwise.
C10_AcceptsExactlyByLength ==
    [][\A p \in ProjectIds : \A t \in TextInputs :
           StartAddComment(p, t) =>
               IF 5 <= t.len /\ t.len <= 500
               THEN CommentAccepted(p, t)
               ELSE CommentRejected]_vars

\* C10 amended: add_comment accepts a text exactly when its length is between
\* 5 and 500 characters inclusive and it is not made of whitespace alone;
\* any other text is rejected without modifying the log, and only accepted
\* texts are ever stored.
C10_AcceptsByLengthAndContent ==
    /\ [](\A p \in ProjectIds : \A t \in StoredTexts(p) :
              5 <= t.len /\ t.len <= 500 /\ ~t.ws)
    /\ [][\A p \in ProjectIds : \A t \in TextInputs :
              StartAddComment(p, t) =>
                  IF 5 <= t.len /\ t.len <= 500 /\ ~t.ws
                  THEN CommentAccepted(p, t)
                  ELSE CommentRejected]_vars

\* C10 witness: a text has just been rejected while a log holds an accepted
\* text of 5 characters and one of 500
C10_Witness ==
    /\ last = Redirect("Invalid comment. Please check your input.")
    /\ \E p \in ProjectIds :
           \E t5 \in StoredTexts(p), t500 \in StoredTexts(p) :
               t5.len = 5 /\ t500.len = 500

\* the sequence s is the beginning of the sequence t
IsPrefix(s, t) == Len(s) <= Len(t) /\ SubSeq(t, 1, Len(s)) = s

\* C11: contributions are insert-only: no step of any operation (contribute,
\* add_comment, create_project, the read routes) changes the amount, the
\* project or the contributor of a stored contribution or removes it; the
\* table, and with it the contribution set of every project, only grows.
C11_ContributionsInsertOnly ==
    [][IsPrefix(contributions, contributions')]_vars

\* C11 witness: a table of at least two contributions, the later one inserted
\* after a comment was stored, with a read in progress
C11_Witness ==
    /\ Len(contributions) >= 2
    /\ \E p \in ProjectIds : okComments[p] # <<>>
    /\ \E q \in InFlightRequests : q.op \in {"project_detail", "my_projects"}

\* the stored text up to, and without, the bracket that closes a list
Content(blob) ==
    IF blob # <<>> /\ blob[Len(blob)] = Tok("]") THEN SubSeq(blob, 1, Len(blob) - 1)
    ELSE blob

\* C12: every successful add_comment preserves history: whatever the stored
\* comments field held before it (nothing, a list, corrupted or unparseable
\* text), that content is retained unchanged as the beginning of what is
\* stored after it.
C12_AppendPreservesHistory ==
    [][\A p \in ProjectIds :
           (\E q \in InFlightRequests : CommentSucceeded(q, p)) =>
               IsPrefix(Content(projects[p].comments), Content(projects'[p].comments))]_vars

\* the part of C12 about stored text that json.loads parses to a list
C12_AppendPreservesParsedList ==
    [][\A p \in ProjectIds :
           (\E q \in InFlightRequests : CommentSucceeded(q, p))
           /\ JsonLoads(projects[p].comments).kind = "list" =>
               IsPrefix(Content(projects[p].comments), Content(projects'[p].comments))]_vars

\* the stored text is a log of comments: nothing, or a JSON list of objects
IsCommentLog(blob) ==
    \/ blob = <<>>
    \/ /\ JsonLoads(blob).kind = "list"
       /\ \A i \in 1..Len(JsonLoads(blob).items) : IsObject(JsonLoads(blob).items[i])

\* C13: reading a comment log whose stored text is corrupted or unparseable
\* (text that is no JSON, JSON that is no list of comments) returns an empty
\* sequence and raises nothing, and the project_detail page that reads it is
\* still rendered, with its totals and an empty comment list.
C13_CorruptLogReadsEmpty ==
    /\ \A p \in ProjectIds :
           ~IsCommentLog(projects[p].comments) =>
               get_comments_list(projects[p].comments) = PyList(<<>>)
    /\ \A q \in InFlightRequests :
           q.op = "project_detail" /\ q.pc = "sum" /\ ~IsCommentLog(q.project.comments) =>
               /\ ~DetailResponse(q).raised
               /\ DetailResponse(q).total_raised = SumQuery(Visible(q), q.id)
               /\ DetailResponse(q).comments = PyList(<<>>)

\* the part of C13 about stored text that is no JSON at all
C13_UnparseableReadsEmpty ==
    \A p \in ProjectIds :
        ~JsonLoads(projects[p].comments).ok =>
            get_comments_list(projects[p].comments) = PyList(<<>>)

\* C14: in every reachable state every stored project has a funding goal that
\* is > 0 and within 1.00 .. 1,000,000.00 and a category that exists; a
\* create_project request with a goal <= 0 or with a category id that does
\* not exist is rejected and creates no project.
C14_ProjectsWellFormed ==
    /\ [](\A p \in ProjectIds :
              /\ projects[p].funding_goal > 0
              /\ 100 <= projects[p].funding_goal /\ projects[p].funding_goal <= 100000000
              /\ projects[p].category_id \in Categories)
    /\ [][\A form \in ProjectInputs :
              CreateProject(form)
              /\ (form.funding_goal <= 0 \/ form.category \notin Categories) =>
                  projects' = projects /\ last' = Page]_vars

\* C14 witness: a form has just been rejected and rendered again while the
\* table holds a project
C14_Witness ==
    /\ last = Page
    /\ projects # <<>>
    /\ InFlightRequests = {}

\* this step is a contribute, add_comment or project_detail request for id
RequestFor(id) ==
    \/ \E a \in AmountInputs : StartContribute(id, a)
    \/ \E t \in TextInputs : StartAddComment(id, t)
    \/ StartProjectDetail(id)

\* C15: contribute, add_comment and project_detail against a project id that
\* does not exist end the request at once with a not-found outcome (404) and
\* change no stored state: no contribution row is inserted, no comment log is
\* modified, no request goes on.
C15_NotFoundChangesNothing ==
    [][\A id \in 1..MaxProjects :
           id \notin ProjectIds /\ RequestFor(id) =>
               /\ last'.status = 404
               /\ req' = req
               /\ projects' = projects /\ contributions' = contributions]_vars

\* C15 witness: a request has just ended not-found while a project, a
\* contribution and a comment are stored
C15_Witness ==
    /\ last.status = 404
    /\ contributions # <<>>
    /\ \E p \in ProjectIds : projects[p].comments # <<>>

\* C16: for every project, the total raised and the progress percentage that
\* a read is about to report are never below those that the latest earlier
\* read of the project reported: over successive reads (project_detail,
\* my_projects) the figures never decrease.
C16_ReadsNeverDecrease ==
    \A q \in InFlightRequests :
        /\ q.op = "project_detail" /\ q.pc = "sum" =>
               /\ DetailResponse(q).total_raised >= seen.at[q.id].total_raised
               /\ DetailResponse(q).progress_percentage >= seen.at[q.id].progress_percentage
        /\ q.op = "my_projects" /\ q.pc = "count" =>
               q.total_raised >= seen.at[Head(q.todo)].total_raised

\* C16 witness: project_detail is about to report a larger total and a larger
\* percentage for a project than an earlier read reported for it
C16_Witness ==
    \E q \in InFlightRequests :
        /\ q.op = "project_detail" /\ q.pc = "sum"
        /\ seen.at[q.id].total_raised > 0
        /\ DetailResponse(q).total_raised > seen.at[q.id].total_raised
        /\ DetailResponse(q).progress_percentage > seen.at[q.id].progress_percentage

\* the float x is at most the float y (the deviations are far below a cent)
FloatLeq(x, y) == x.c < y.c \/ (x.c = y.c /\ x.d <= y.d)

\* the part of C16 about the methods of Project: no step makes
\* get_total_raised or get_progress_percentage of a project smaller
C16_MethodsNeverDecrease ==
    [][\A p \in ProjectIds :
           /\ FloatLeq(get_total_raised(contributions, p), get_total_raised(contributions', p))
           /\ get_progress_percentage(contributions, p, projects[p].funding_goal).value
                  <= get_progress_percentage(contributions', p, projects[p].funding_goal).value]_vars

\* this step puts a contribute request of amount a for project p in flight:
\* the request was accepted
ContributionAccepted(p, a) ==
    \E q \in BagToSet(req') :
        /\ q.op = "contribute" /\ q.contribution = Contribution(a, current_user, p)
        /\ req' = req (+) SetToBag({q})

\* the amounts contributed to project p are 30.00, 40.00 and 50.00, once each
IsScenario(p) ==
    /\ Len(RowsOf(contributions, p)) = 3
    /\ {RowsOf(contributions, p)[i].amount : i \in 1..3} = ScenarioAmounts

\* C17: a project stays open: a valid contribute request is accepted in every
\* reachable state, whatever has been raised, and what it adds is recorded;
\* once the total raised equals or exceeds the goal the percentage reads 100
\* and the count is the number of successes.  A goal of 100.00 with
\* contributions of 30.00, 40.00 and 50.00 gives a total of 120.00, a
\* percentage of 100 and a count of 3.
C17_OpenAndOverFunded ==
    /\ [](\A p \in ProjectIds :
              /\ SumQuery(contributions, p) >= projects[p].funding_goal =>
                     /\ get_progress_percentage(contributions, p,
                                                projects[p].funding_goal).value = 10000
                     /\ detail_progress_percentage(SumQuery(contributions, p),
                                                   projects[p].funding_goal).value = 10000
                     /\ get_contribution_count(contributions, p) = Len(RowsOf(okContrib, p))
                     /\ SumQuery(contributions, p) = ExactTotal(p)
              /\ IsScenario(p) /\ projects[p].funding_goal = 10000 =>
                     /\ SumQuery(contributions, p) = 12000
                     /\ get_total_raised(contributions, p) = [c |-> 12000, d |-> 0]
                     /\ get_contribution_count(contributions, p) = 3)
    /\ [][\A p \in ProjectIds : \A a \in ScenarioAmounts :
              StartContribute(p, a) => ContributionAccepted(p, a)]_vars
    /\ [][\A q \in InFlightRequests :
              ContributeCommit(q) =>
                  SumQuery(contributions', q.contribution.project_id)
                      = SumQuery(contributions, q.contribution.project_id)
                            + q.contribution.amount]_vars

\* C17 witness: the goal of 100.00 is over-funded by the contributions 30.00,
\* 40.00 and 50.00, the last of which has just been accepted and recorded
C17_Witness ==
    /\ last = Redirect("Thank you for your contribution")
    /\ IsScenario(1)
    /\ SumQuery(contributions, 1) = 12000

\* a contribution is accepted while the total raised already equals the goal
C17_AcceptedAtGoal ==
    /\ SumQuery(contributions, 1) = projects[1].funding_goal
    /\ InFlight("contribute") > 0

\* the contributions of every project but p are the same after this step
OtherContributionsKept(p) ==
    \A p2 \in ProjectIds \ {p} : RowsOf(contributions', p2) = RowsOf(contributions, p2)

\* C18: writes touch only their own target.  A successful contribute to
\* project p leaves every comment log, that of p included, and the
\* contributions (hence totals, percentages and counts) of every other project
\* as they were; a successful add_comment on p leaves all contributions, the
\* goal of p and the row of every other project as they were.
C18_WritesTouchOnlyTarget ==
    [][\A p \in ProjectIds :
           /\ ContributeSucceeded(p) =>
                  /\ projects' = projects
                  /\ OtherContributionsKept(p)
           /\ (\E q \in InFlightRequests : CommentSucceeded(q, p)) =>
                  /\ contributions' = contributions
                  /\ projects'[p].funding_goal = projects[p].funding_goal
                  /\ \A p2 \in ProjectIds \ {p} : projects'[p2] = projects[p2]]_vars

\* C18 witness: an add_comment has just succeeded while two projects each
\* hold contributions and a comment
C18_Witness ==
    /\ last = Redirect("Comment added successfully!")
    /\ Len(projects) = 2
    /\ \A p \in ProjectIds :
           projects[p].comments # <<>> /\ RowsOf(contributions, p) # <<>>

====
